---- MODULE Spec2Model ----
(***************************************************************************)
(* Frame-stepped combat simulation of games.py: the player controller, the *)
(* enemy controller, the hit resolution and the group respawn of           *)
(* main_loop.                                                              *)
(*                                                                         *)
(* Units.  clock.tick() returns whole milliseconds, so dt and every timer  *)
(* are kept in milliseconds (0.45 s = 450).  Stamina is kept in            *)
(* thousandths of a point, so that STAMINA_RECOVERY_RATE * dt (points per  *)
(* second times milliseconds) is the exact regeneration of one frame.      *)
(* Unit vectors are kept in thousandths (1000 = 1.0, 707 = 0.7071...), and *)
(* velocities in thousandths of a unit per second.                         *)
(*                                                                         *)
(* Positions.  The two distance tests of the frame (Enemy.update's dist    *)
(* against 300 and radius+radius+6, and circle_collide of the hitbox) are  *)
(* modelled twice.  PlayerStep, EnemiesStep and ResolveStep resolve them   *)
(* by a choice per enemy and frame, drawn from a set of zones and a set of *)
(* overlaps, and leave the positions alone.  ArenaPlayerStep,              *)
(* ArenaEnemiesStep and ArenaResolveStep advance the positions, kept in    *)
(* whole units, and compute the tests from them.                           *)
(***************************************************************************)
EXTENDS Integers, Sequences, FiniteSets, TLC

\* ---------------------------------------------------------------- constants
MS == 1000
PLAYER_SPEED == 180
ROLL_SPEED == 420
ATTACK_COOLDOWN == 450
ROLL_COOLDOWN == 800
INVULN_TIME == 280
STAMINA_MAX == 100
STAMINA_RECOVERY_RATE == 20
LIGHT_ATTACK_COST == 12
HEAVY_ATTACK_COST == 28
HEAVY_ATTACK_COOLDOWN == 1000
ENEMY_DAMAGE == 12
ROLL_COST == 20
ROLL_TIME == 260
LIGHT_ATTACK_TIME == 180
HEAVY_ATTACK_TIME == 340
HIT_GRACE == 500
HIT_DAMAGE == 28
ENEMY_ATTACK_COOLDOWN == 1000
PLAYER_MAX_HP == 120
ENEMY_MAX_HP == 80
NUM_ENEMIES == 4
RESPAWN_MIN == 3000
RESPAWN_MAX == 6000
BLEND_RATE == 10
WIDTH == 1920
HEIGHT == 1080
MARGIN == 20
ATTACK_RANGE == 48
ENEMY_SPEED == 100
PLAYER_RADIUS == 16
ENEMY_RADIUS == 16
SIGHT == 300
REACH == 6
KNOCKBACK == 12
SPAWN_MARGIN == 100
RESPAWN_MARGIN == 60

\* ------------------------------------------------------------------- bounds
\* Frame times: a short frame of a tenth of a second, inside every action
\* window (0.18, 0.26, 0.34), and a long frame of LongFrame short ones.
LongFrame == 5

\* The frames a run of SpecArena lasts: the march to the far wall and a fight
\* there.
MaxFrames == 16

\* The circles handed to circle_collide in SpecCollide: centres on the grid
\* 0..MaxCoord x 0..MaxCoord, radii 1..MaxRadius.
MaxCoord == 4
MaxRadius == 3

DtUnit == MS \div 10

DtSet == {DtUnit, LongFrame * DtUnit}

\* ------------------------------------------------------------------ helpers
Max(a, b) == IF a >= b THEN a ELSE b
Min(a, b) == IF a <= b THEN a ELSE b

clamp(x, a, b) == Max(a, Min(b, x))

\* Entity.update_timers / the "if t > 0: t = max(0, t - dt)" of every timer.
Advance(t, dt) == IF t > 0 THEN Max(0, t - dt) ELSE t

\* Vector2 as <<x, y>>.
VAdd(u, v) == <<u[1] + v[1], u[2] + v[2]>>
VSub(u, v) == <<u[1] - v[1], u[2] - v[2]>>
VScale(u, k) == <<u[1] * k, u[2] * k>>
VDivI(u, k) == <<u[1] \div k, u[2] \div k>>

\* Vector2.normalize() of a vector with components in {-1, 0, 1}, in
\* thousandths: an axis vector keeps length 1000, a diagonal gets 707 a side.
Normalize(mv) ==
  IF mv[1] # 0 /\ mv[2] # 0 THEN <<707 * mv[1], 707 * mv[2]>>
  ELSE <<1000 * mv[1], 1000 * mv[2]>>

\* ------------------------------------------------------------------- inputs
NoKeys == [up |-> FALSE, down |-> FALSE, left |-> FALSE, right |-> FALSE,
           j |-> FALSE, k |-> FALSE, space |-> FALSE,
           mouse0 |-> FALSE, mouse2 |-> FALSE]

MoveSet == { [up |-> FALSE, down |-> FALSE, left |-> FALSE, right |-> FALSE],
             [up |-> FALSE, down |-> FALSE, left |-> FALSE, right |-> TRUE],
             [up |-> FALSE, down |-> TRUE, left |-> FALSE, right |-> TRUE],
             [up |-> FALSE, down |-> FALSE, left |-> TRUE, right |-> TRUE] }

ButtonSet == [j : BOOLEAN, k : BOOLEAN, space : BOOLEAN, mouse0 : {FALSE}, mouse2 : {FALSE}]
             \cup { [j |-> FALSE, k |-> FALSE, space |-> FALSE, mouse0 |-> TRUE, mouse2 |-> FALSE],
                    [j |-> FALSE, k |-> FALSE, space |-> FALSE, mouse0 |-> FALSE, mouse2 |-> TRUE] }

KeySet == { [up |-> m.up, down |-> m.down, left |-> m.left, right |-> m.right,
             j |-> b.j, k |-> b.k, space |-> b.space,
             mouse0 |-> b.mouse0, mouse2 |-> b.mouse2] : m \in MoveSet, b \in ButtonSet }

\* ----------------------------------------------------------------- entities
\* Entity.take_damage: the entity after the call, and the value returned.
take_damage_unguarded(e, amount) ==
  IF ~e.alive
  THEN [ent |-> e, ret |-> FALSE]
  ELSE [ent |-> [e EXCEPT !.hp = e.hp - amount,
                          !.invuln_timer = HIT_GRACE,
                          !.alive = (e.hp - amount > 0)],
        ret |-> TRUE]

take_damage(e, amount) ==
  IF e.invuln_timer > 0 \/ ~e.alive
  THEN [ent |-> e, ret |-> FALSE]
  ELSE [ent |-> [e EXCEPT !.hp = e.hp - amount,
                          !.invuln_timer = HIT_GRACE,
                          !.alive = (e.hp - amount > 0)],
        ret |-> TRUE]

update_timers(e, dt) == [e EXCEPT !.invuln_timer = Advance(e.invuln_timer, dt)]

\* Player.__init__
NewPlayer ==
  [hp |-> PLAYER_MAX_HP, alive |-> TRUE, invuln_timer |-> 0,
   stamina |-> STAMINA_MAX * MS,
   attack_timer |-> 0, attack_cooldown |-> 0,
   roll_timer |-> 0, roll_cooldown |-> 0,
   facing |-> <<1000, 0>>, vel |-> <<0, 0>>, is_rolling |-> FALSE]

\* Enemy.__init__
NewEnemy ==
  [hp |-> ENEMY_MAX_HP, alive |-> TRUE, invuln_timer |-> 0,
   attack_cooldown |-> 0, respawn_time |-> 0]

\* ------------------------------------------------------------ Player.update
\* lines 90-97: the movement vector of the pressed direction keys.
MoveVector(keys) ==
  << (IF keys.right THEN 1 ELSE 0) - (IF keys.left THEN 1 ELSE 0),
     (IF keys.down THEN 1 ELSE 0) - (IF keys.up THEN 1 ELSE 0) >>

\* mv after line 96: normalized when it is not the zero vector.
MoveDir(keys) ==
  IF MoveVector(keys) # <<0, 0>> THEN Normalize(MoveVector(keys)) ELSE <<0, 0>>

Face(p, keys) ==
  IF MoveVector(keys) # <<0, 0>>
  THEN [p EXCEPT !.facing = MoveDir(keys)]
  ELSE p

\* lines 99-100
RegenAlways(p, dt) ==
  [p EXCEPT !.stamina = clamp(p.stamina + STAMINA_RECOVERY_RATE * dt, 0, STAMINA_MAX * MS)]

Regen(p, dt) ==
  IF ~p.is_rolling
  THEN [p EXCEPT !.stamina = clamp(p.stamina + STAMINA_RECOVERY_RATE * dt, 0, STAMINA_MAX * MS)]
  ELSE p

RollPressed(keys) == keys.space \/ keys.mouse2
LightPressed(keys) == keys.j \/ keys.mouse0
HeavyPressed(keys) == keys.k

\* lines 102-109
RollStartsNoStamina(p, keys) ==
  p.roll_cooldown <= 0 /\ RollPressed(keys)

RollStartsCheap(p, keys) ==
  p.roll_cooldown <= 0 /\ RollPressed(keys) /\ p.stamina >= LIGHT_ATTACK_COST * MS

RollStarts(p, keys) ==
  p.roll_cooldown <= 0 /\ RollPressed(keys) /\ p.stamina >= ROLL_COST * MS

TryRollNoInvuln(p, keys) ==
  IF RollStarts(p, keys)
  THEN [p EXCEPT !.is_rolling = TRUE,
                 !.roll_timer = ROLL_TIME,
                 !.roll_cooldown = ROLL_COOLDOWN,
                 !.stamina = p.stamina - ROLL_COST * MS,
                 !.vel = VScale(p.facing, ROLL_SPEED)]
  ELSE p

TryRoll(p, keys) ==
  IF RollStarts(p, keys)
  THEN [p EXCEPT !.is_rolling = TRUE,
                 !.roll_timer = ROLL_TIME,
                 !.roll_cooldown = ROLL_COOLDOWN,
                 !.invuln_timer = INVULN_TIME,
                 !.stamina = p.stamina - ROLL_COST * MS,
                 !.vel = VScale(p.facing, ROLL_SPEED)]
  ELSE p

\* lines 112-117
LightStarts(p, keys) ==
  p.attack_cooldown <= 0 /\ LightPressed(keys) /\ p.stamina >= LIGHT_ATTACK_COST * MS

TryLightNoCooldown(p, keys) ==
  IF LightStarts(p, keys)
  THEN [p EXCEPT !.attack_timer = LIGHT_ATTACK_TIME,
                 !.stamina = p.stamina - LIGHT_ATTACK_COST * MS]
  ELSE p

TryLight(p, keys) ==
  IF LightStarts(p, keys)
  THEN [p EXCEPT !.attack_timer = LIGHT_ATTACK_TIME,
                 !.attack_cooldown = ATTACK_COOLDOWN,
                 !.stamina = p.stamina - LIGHT_ATTACK_COST * MS]
  ELSE p

\* lines 118-123
HeavyStarts(p, keys) ==
  p.attack_cooldown <= 0 /\ HeavyPressed(keys) /\ p.stamina >= HEAVY_ATTACK_COST * MS

\* TryHeavy with a hitbox that lasts as long as the cooldown, longer than
\* the 0.5 s for which a hit protects an enemy.
TryHeavyLong(p, keys) ==
  IF HeavyStarts(p, keys)
  THEN [p EXCEPT !.attack_timer = HEAVY_ATTACK_COOLDOWN,
                 !.attack_cooldown = HEAVY_ATTACK_COOLDOWN,
                 !.stamina = p.stamina - HEAVY_ATTACK_COST * MS]
  ELSE p

TryHeavy(p, keys) ==
  IF HeavyStarts(p, keys)
  THEN [p EXCEPT !.attack_timer = HEAVY_ATTACK_TIME,
                 !.attack_cooldown = HEAVY_ATTACK_COOLDOWN,
                 !.stamina = p.stamina - HEAVY_ATTACK_COST * MS]
  ELSE p

\* lines 125-135
TickPlayer(p, dt) ==
  LET rt == Advance(p.roll_timer, dt)
      ends == p.roll_timer > 0 /\ rt = 0
  IN [p EXCEPT !.attack_timer = Advance(p.attack_timer, dt),
               !.attack_cooldown = Advance(p.attack_cooldown, dt),
               !.roll_timer = rt,
               !.is_rolling = IF ends THEN FALSE ELSE p.is_rolling,
               !.vel = IF ends THEN <<0, 0>> ELSE p.vel,
               !.roll_cooldown = Advance(p.roll_cooldown, dt)]

\* lines 137-139; attacking is the local flag of lines 111-123.
BlendWhileRolling(p, keys, dt, attacking) ==
  IF ~attacking
  THEN LET target == VScale(MoveDir(keys), PLAYER_SPEED)
           f == clamp(BLEND_RATE * dt, 0, MS)
       IN [p EXCEPT !.vel = VAdd(p.vel, VDivI(VScale(VSub(target, p.vel), f), MS))]
  ELSE p

Blend(p, keys, dt, attacking) ==
  IF ~p.is_rolling /\ ~attacking
  THEN LET target == VScale(MoveDir(keys), PLAYER_SPEED)
           f == clamp(BLEND_RATE * dt, 0, MS)
       IN [p EXCEPT !.vel = VAdd(p.vel, VDivI(VScale(VSub(target, p.vel), f), MS))]
  ELSE p

\* lines 89-100: the player when the roll is attempted.
BeforeRoll(p, dt, keys) == Regen(Face(update_timers(p, dt), keys), dt)

PlayerUpdate(p, dt, keys) ==
  LET p2 == BeforeRoll(p, dt, keys)
      p3 == TryRoll(p2, keys)
      p4 == TryLight(p3, keys)
      p5 == TryHeavy(p4, keys)
      attacking == LightStarts(p3, keys) \/ HeavyStarts(p4, keys)
      p6 == TickPlayer(p5, dt)
  IN Blend(p6, keys, dt, attacking)

\* ------------------------------------------------------------- Enemy.update
\* lines 171-179: a dead enemy seeds its respawn timer, or counts it down.
DeadUpdateKeepsHp(e, dt, draw) ==
  IF e.respawn_time <= 0
  THEN [e EXCEPT !.respawn_time = draw]
  ELSE [e EXCEPT !.respawn_time = e.respawn_time - dt,
                 !.alive = (e.respawn_time - dt <= 0)]

DeadUpdateAtOnce(e, dt, draw) ==
  IF e.respawn_time <= 0
  THEN [e EXCEPT !.alive = TRUE, !.hp = ENEMY_MAX_HP]
  ELSE [e EXCEPT !.respawn_time = e.respawn_time - dt]

DeadUpdate(e, dt, draw) ==
  IF e.respawn_time <= 0
  THEN [e EXCEPT !.respawn_time = draw]
  ELSE IF e.respawn_time - dt <= 0
       THEN [e EXCEPT !.respawn_time = e.respawn_time - dt,
                      !.alive = TRUE,
                      !.hp = ENEMY_MAX_HP]
       ELSE [e EXCEPT !.respawn_time = e.respawn_time - dt]

\* lines 181-192: zone is the outcome of the distance tests, "far" for
\* dist >= 300, "chase" for radius+radius+6 < dist < 300, "melee" otherwise.
EnemyAttacks(e, p, zone) ==
  zone = "melee" /\ e.attack_cooldown <= 0 /\ p.invuln_timer <= 0

\* AliveUpdate with neither the test of line 188 on the player's invulnerability
\* nor the one of line 63: every enemy in reach whose cooldown is over strikes.
AliveUpdateEveryStrike(e, p, dt, zone) ==
  IF zone = "far"
  THEN [en |-> e, pl |-> p]
  ELSE LET hits == zone = "melee" /\ e.attack_cooldown <= 0
           cd == IF hits THEN ENEMY_ATTACK_COOLDOWN ELSE e.attack_cooldown
       IN [en |-> [e EXCEPT !.attack_cooldown = Advance(cd, dt)],
           pl |-> IF hits THEN take_damage_unguarded(p, ENEMY_DAMAGE).ent ELSE p]

AliveUpdate(e, p, dt, zone) ==
  IF zone = "far"
  THEN [en |-> e, pl |-> p]
  ELSE LET hits == EnemyAttacks(e, p, zone)
           cd == IF hits THEN ENEMY_ATTACK_COOLDOWN ELSE e.attack_cooldown
       IN [en |-> [e EXCEPT !.attack_cooldown = Advance(cd, dt)],
           pl |-> IF hits THEN take_damage(p, ENEMY_DAMAGE).ent ELSE p]

EnemyUpdate(e, p, dt, zone, draw) ==
  LET e0 == update_timers(e, dt)
  IN IF ~e0.alive
     THEN [en |-> DeadUpdate(e0, dt, draw), pl |-> p]
     ELSE AliveUpdate(e0, p, dt, zone)

\* main_loop lines 241-242: the enemies are updated in list order, each one
\* reading the player the earlier ones left.
RECURSIVE UpdateAll(_, _, _, _, _, _)
UpdateAll(es, p, dt, zones, draws, i) ==
  IF i > Len(es)
  THEN [ens |-> es, pl |-> p]
  ELSE LET r == EnemyUpdate(es[i], p, dt, zones[i], draws[i])
       IN UpdateAll([es EXCEPT ![i] = r.en], r.pl, dt, zones, draws, i + 1)

\* ------------------------------------------------------- hit resolution
\* Player.attack_hitbox, lines 152-158: a hitbox exists while attack_timer > 0.
HasHitbox(p) == p.attack_timer > 0

\* lines 244-252: overlap[i] is the outcome of circle_collide for enemy i.
ResolveHits(es, p, overlap) ==
  IF HasHitbox(p)
  THEN [i \in DOMAIN es |->
          IF es[i].alive /\ overlap[i] THEN take_damage(es[i], HIT_DAMAGE).ent ELSE es[i]]
  ELSE es

\* lines 270-276
AliveCount(es) == Cardinality({i \in DOMAIN es : es[i].alive})

FreshEnemies == [i \in 1..NUM_ENEMIES |-> NewEnemy]

\* ----------------------------------------------------------------- geometry
\* Positions are whole units, <<x, y>>.  A velocity is in thousandths of a
\* unit per second and dt in milliseconds, so a frame moves vel * dt / 10^6
\* units: a whole number for the axis directions at the frame times of DtSet
\* (18 or 90 walking, 42 or 210 rolling, 10 or 50 for an enemy).
LengthSquared(v) == v[1] * v[1] + v[2] * v[2]

Isqrt(n) == CHOOSE r \in 0..(WIDTH + HEIGHT) : r * r <= n /\ (r + 1) * (r + 1) > n

Sign(x) == IF x > 0 THEN 1 ELSE IF x < 0 THEN -1 ELSE 0

\* Vector2.normalize() of a non-zero vector of whole units, in thousandths.
Unit(v) ==
  IF v[1] = 0 \/ v[2] = 0
  THEN <<MS * Sign(v[1]), MS * Sign(v[2])>>
  ELSE LET len == Isqrt(LengthSquared(v))
       IN <<(MS * v[1]) \div len, (MS * v[2]) \div len>>

\* pos += vel * dt
Displace(pos, vel, dt) == VAdd(pos, VDivI(VScale(vel, dt), MS * MS))

\* lines 141-142 and 199-200
ClampToArena(pos) ==
  << clamp(pos[1], MARGIN, WIDTH - MARGIN), clamp(pos[2], MARGIN, HEIGHT - MARGIN) >>

\* Player.update lines 140-142, vel being the velocity line 139 left.
MovePlayerFree(pos, vel, dt) == Displace(pos, vel, dt)

MovePlayer(pos, vel, dt) == ClampToArena(Displace(pos, vel, dt))

\* line 210
circle_collide_strict(a_pos, a_r, b_pos, b_r) ==
  LengthSquared(VSub(a_pos, b_pos)) < (a_r + b_r) * (a_r + b_r)

circle_collide(a_pos, a_r, b_pos, b_r) ==
  LengthSquared(VSub(a_pos, b_pos)) <= (a_r + b_r) * (a_r + b_r)

\* Player.attack_hitbox lines 154-157: length / 1.6 = 30, radius + length / 2
\* = 40; facing is a unit vector in thousandths.
HitRadius == (ATTACK_RANGE * 10) \div 16
HitCenter(pos, facing) ==
  VAdd(pos, VDivI(VScale(facing, PLAYER_RADIUS + ATTACK_RANGE \div 2), MS))

\* Enemy.update lines 181-184: the outcome of the two distance tests.
ZoneOf(epos, ppos) ==
  LET d2 == LengthSquared(VSub(ppos, epos))
      near == ENEMY_RADIUS + PLAYER_RADIUS + REACH
  IN IF d2 >= SIGHT * SIGHT THEN "far"
     ELSE IF d2 > near * near THEN "chase"
     ELSE "melee"

\* Enemy.update lines 194-197: kick is the direction drawn in the 1 % case,
\* a unit vector in thousandths, or NoKick.
NoKick == <<0, 0>>
WanderVel(vel, kick) ==
  IF kick = NoKick THEN VDivI(VScale(vel, 9), 10) ELSE VScale(kick, ENEMY_SPEED \div 2)

\* Enemy.update lines 171-200 on the position and velocity of an enemy; alive
\* is the flag the update found.  A dead enemy returns before the clamp.
MoveEnemy(alive, pos, vel, ppos, dt, kick) ==
  IF ~alive THEN [pos |-> pos, vel |-> vel]
  ELSE LET zone == ZoneOf(pos, ppos)
           v == IF zone = "chase" THEN VScale(Unit(VSub(ppos, pos)), ENEMY_SPEED)
                ELSE IF zone = "far" THEN WanderVel(vel, kick)
                ELSE vel
       IN [pos |-> ClampToArena(IF zone = "melee" THEN pos ELSE Displace(pos, v, dt)),
           vel |-> v]

\* main_loop lines 248-252: the enemy's position after the hitbox test.
Knockback(alive, epos, ppos, hits) ==
  IF alive /\ hits /\ VSub(epos, ppos) # <<0, 0>>
  THEN VAdd(epos, VDivI(VScale(Unit(VSub(epos, ppos)), KNOCKBACK), MS))
  ELSE epos

\* -------------------------------------------------------------------- state
\* player and enemies are the module-level objects of lines 212-213; pc is the
\* position in the body of main_loop; dt is the frame time of line 229.
\* player_pos, enemy_pos and enemy_vel are the pos of the player and the pos
\* and vel of each enemy.  The Arena actions advance them and read the
\* distance tests off them; the other actions draw the outcome of each
\* distance test from a set and leave the positions alone.
\*
\* Four variables observe the run and are read by no action:
\*   hit_clock     the frame time accumulated since the player last lost hp,
\*                 saturating at HIT_GRACE;
\*   dead_clock    for each enemy, the frame time counted down from its
\*                 respawn timer since the timer was seeded, 0 while alive;
\*   regrouped     whether the step just taken repopulated the enemy list;
\*   swing_damage  for each enemy, the hp it has lost to the swing in
\*                 progress, 0 when no swing is.
\* frames counts the frames of a run whose length is bounded.
\* probe is a pair of circles handed to circle_collide and the two answers,
\* for the circles in either order; only SpecCollide uses it.
VARIABLES player, enemies, pc, dt, player_pos, enemy_pos, enemy_vel,
          hit_clock, dead_clock, regrouped, swing_damage, frames, probe

vars == <<player, enemies, pc, dt, player_pos, enemy_pos, enemy_vel,
          hit_clock, dead_clock, regrouped, swing_damage, frames, probe>>

geometry == <<player_pos, enemy_pos, enemy_vel>>

All(v) == [i \in 1..NUM_ENEMIES |-> v]
FirstOnly(v, w) == [i \in 1..NUM_ENEMIES |-> IF i = 1 THEN v ELSE w]

\* line 212, and one outcome of the draws of line 213: the enemies on the
\* player's row, the first at the largest x the draw allows and the others
\* at the smallest.
Centre == <<WIDTH \div 2, HEIGHT \div 2>>
SpawnSet == { FirstOnly(<<WIDTH - SPAWN_MARGIN, HEIGHT \div 2>>,
                        <<SPAWN_MARGIN, HEIGHT \div 2>>) }

NoProbe == [a |-> <<0, 0>>, ra |-> 0, b |-> <<0, 0>>, rb |-> 0,
            tested_ab |-> FALSE, hit_ab |-> FALSE,
            tested_ba |-> FALSE, hit_ba |-> FALSE]

InitGame ==
  /\ player = NewPlayer
  /\ enemies = FreshEnemies
  /\ pc = "player"
  /\ dt = 0
  /\ player_pos = Centre
  /\ enemy_pos \in SpawnSet
  /\ enemy_vel = All(<<0, 0>>)
  /\ hit_clock = HIT_GRACE
  /\ dead_clock = All(0)
  /\ regrouped = FALSE
  /\ swing_damage = All(0)
  /\ frames = 0

Init == InitGame /\ probe = NoProbe

\* ---- what the observers record of a step
\* A swing starts in an update that raises attack_cooldown.
SwingAfterUpdate(p, q, sd) ==
  IF q.attack_cooldown > p.attack_cooldown \/ q.attack_timer = 0 THEN All(0) ELSE sd

SwingAfterHits(es, fs, sd) == [i \in DOMAIN sd |-> sd[i] + (es[i].hp - fs[i].hp)]

DeadClockAfter(es, fs, d, dc) ==
  [i \in DOMAIN dc |->
     IF fs[i].alive \/ es[i].alive \/ es[i].respawn_time <= 0 THEN 0 ELSE dc[i] + d]

\* ---- the frame
\* main_loop lines 229-240
PlayerStep(Dts, Keys) ==
  /\ pc = "player"
  /\ \E d \in Dts, ks \in Keys :
       /\ dt' = d
       /\ player' = PlayerUpdate(player, d, ks)
       /\ hit_clock' = Min(HIT_GRACE, hit_clock + d)
  /\ pc' = "enemies"
  /\ regrouped' = FALSE
  /\ swing_damage' = SwingAfterUpdate(player, player', swing_damage)
  /\ UNCHANGED <<enemies, geometry, dead_clock, frames, probe>>

\* main_loop lines 241-242
EnemiesStep(Zones, Draws) ==
  /\ pc = "enemies"
  /\ \E zones \in Zones, draws \in Draws :
       LET r == UpdateAll(enemies, player, dt, zones, draws, 1)
       IN /\ enemies' = r.ens
          /\ player' = r.pl
          /\ hit_clock' = IF r.pl.hp < player.hp THEN 0 ELSE hit_clock
  /\ pc' = "resolve"
  /\ dead_clock' = DeadClockAfter(enemies, enemies', dt, dead_clock)
  /\ UNCHANGED <<dt, geometry, regrouped, swing_damage, frames, probe>>

\* main_loop lines 244-252
ResolveStep(Overlaps) ==
  /\ pc = "resolve"
  /\ \E overlap \in Overlaps : enemies' = ResolveHits(enemies, player, overlap)
  /\ pc' = "respawn"
  /\ swing_damage' = SwingAfterHits(enemies, enemies', swing_damage)
  /\ UNCHANGED <<player, dt, geometry, hit_clock, dead_clock, regrouped, frames, probe>>

\* main_loop lines 270-276: the 1 % draw is a choice between these two.
GroupRespawnUnguarded(Spawns) ==
  /\ pc = "respawn"
  /\ enemies' = FreshEnemies
  /\ enemy_pos' \in Spawns
  /\ enemy_vel' = All(<<0, 0>>)
  /\ pc' = "player"
  /\ dead_clock' = All(0)
  /\ regrouped' = TRUE
  /\ swing_damage' = All(0)
  /\ UNCHANGED <<player, dt, player_pos, hit_clock, frames, probe>>

GroupRespawnIfAnyAlive(Spawns) ==
  /\ pc = "respawn"
  /\ AliveCount(enemies) > 0
  /\ enemies' = FreshEnemies
  /\ enemy_pos' \in Spawns
  /\ enemy_vel' = All(<<0, 0>>)
  /\ pc' = "player"
  /\ dead_clock' = All(0)
  /\ regrouped' = TRUE
  /\ swing_damage' = All(0)
  /\ UNCHANGED <<player, dt, player_pos, hit_clock, frames, probe>>

GroupRespawn(Spawns) ==
  /\ pc = "respawn"
  /\ AliveCount(enemies) = 0
  /\ enemies' = FreshEnemies
  /\ enemy_pos' \in Spawns
  /\ enemy_vel' = All(<<0, 0>>)
  /\ pc' = "player"
  /\ dead_clock' = All(0)
  /\ regrouped' = TRUE
  /\ swing_damage' = All(0)
  /\ UNCHANGED <<player, dt, player_pos, hit_clock, frames, probe>>

NoRespawn ==
  /\ pc = "respawn"
  /\ pc' = "player"
  /\ UNCHANGED <<player, enemies, dt, geometry, hit_clock, dead_clock,
                 regrouped, swing_damage, frames, probe>>

\* ---- the frame with positions
\* main_loop lines 229-240
ArenaPlayerStep(Dts, Keys) ==
  /\ pc = "player"
  /\ frames < MaxFrames
  /\ frames' = frames + 1
  /\ \E d \in Dts, ks \in Keys :
       /\ dt' = d
       /\ player' = PlayerUpdate(player, d, ks)
       /\ player_pos' = MovePlayer(player_pos, player'.vel, d)
       /\ hit_clock' = Min(HIT_GRACE, hit_clock + d)
  /\ pc' = "enemies"
  /\ regrouped' = FALSE
  /\ swing_damage' = SwingAfterUpdate(player, player', swing_damage)
  /\ UNCHANGED <<enemies, enemy_pos, enemy_vel, dead_clock, probe>>

\* main_loop lines 241-242: each enemy's distance tests read its own position
\* and the player's, which no enemy's update moves.
ArenaEnemiesStep(Draws, Kicks) ==
  /\ pc = "enemies"
  /\ \E draws \in Draws, kicks \in Kicks :
       LET zones == [i \in DOMAIN enemies |-> ZoneOf(enemy_pos[i], player_pos)]
           r == UpdateAll(enemies, player, dt, zones, draws, 1)
           m == [i \in DOMAIN enemies |->
                   MoveEnemy(enemies[i].alive, enemy_pos[i], enemy_vel[i],
                             player_pos, dt, kicks[i])]
       IN /\ enemies' = r.ens
          /\ player' = r.pl
          /\ enemy_pos' = [i \in DOMAIN enemies |-> m[i].pos]
          /\ enemy_vel' = [i \in DOMAIN enemies |-> m[i].vel]
          /\ hit_clock' = IF r.pl.hp < player.hp THEN 0 ELSE hit_clock
  /\ pc' = "resolve"
  /\ dead_clock' = DeadClockAfter(enemies, enemies', dt, dead_clock)
  /\ UNCHANGED <<dt, player_pos, regrouped, swing_damage, frames, probe>>

\* main_loop lines 244-252
HitboxCovers(i) ==
  circle_collide(HitCenter(player_pos, player.facing), HitRadius,
                 enemy_pos[i], ENEMY_RADIUS)

ArenaResolveStep ==
  /\ pc = "resolve"
  /\ LET overlap == [i \in DOMAIN enemies |-> HitboxCovers(i)]
     IN /\ enemies' = ResolveHits(enemies, player, overlap)
        /\ enemy_pos' = [i \in DOMAIN enemies |->
                           Knockback(enemies[i].alive, enemy_pos[i], player_pos,
                                     HasHitbox(player) /\ overlap[i])]
  /\ pc' = "respawn"
  /\ swing_damage' = SwingAfterHits(enemies, enemies', swing_damage)
  /\ UNCHANGED <<player, dt, player_pos, enemy_vel, hit_clock, dead_clock, regrouped,
                 frames, probe>>

\* ------------------------------------------------------------- input sets
\* Spec: the player's controller under every button combination, the enemies
\* out of reach (wandering or chasing) and outside the hitbox.
ZoneSet == { All(z) : z \in {"far", "chase"} }
OverlapSet == { All(FALSE) }
DrawSet == { All(RESPAWN_MIN) }

Next ==
  \/ PlayerStep(DtSet, KeySet)
  \/ EnemiesStep(ZoneSet, DrawSet)
  \/ ResolveStep(OverlapSet)
  \/ NoRespawn

Spec == Init /\ [][Next]_vars

\* SpecDodge: the player rolls or stands, the first enemy comes into melee
\* range and leaves it, the others stay away.
DodgeKeys == { [NoKeys EXCEPT !.space = s] : s \in BOOLEAN }
DodgeZones == { FirstOnly(z, "far") : z \in {"far", "melee"} }

NextDodge ==
  \/ PlayerStep(DtSet, DodgeKeys)
  \/ EnemiesStep(DodgeZones, DrawSet)
  \/ ResolveStep(OverlapSet)
  \/ NoRespawn

SpecDodge == Init /\ [][NextDodge]_vars

\* SpecGang: the player rolls or stands with the first two enemies at its
\* side, in melee range in every frame; the others stay away.
GangZones == { [i \in 1..NUM_ENEMIES |-> IF i <= 2 THEN "melee" ELSE "far"] }

NextGang ==
  \/ PlayerStep(DtSet, DodgeKeys)
  \/ EnemiesStep(GangZones, DrawSet)
  \/ ResolveStep(OverlapSet)
  \/ NoRespawn

SpecGang == Init /\ [][NextGang]_vars

\* SpecHits: the player swings heavy attacks or stands, the enemies stay
\* just out of melee range and the hitbox covers all of them or none; a dead
\* enemy draws either end of the respawn interval.
HitKeys == { [NoKeys EXCEPT !.k = s] : s \in BOOLEAN }
HitZones == { All("chase") }
HitOverlaps == { All(b) : b \in BOOLEAN }
HitDraws == { All(t) : t \in {RESPAWN_MIN, RESPAWN_MAX} }

NextHits ==
  \/ PlayerStep(DtSet, HitKeys)
  \/ EnemiesStep(HitZones, HitDraws)
  \/ ResolveStep(HitOverlaps)
  \/ GroupRespawn(SpawnSet)
  \/ NoRespawn

SpecHits == Init /\ [][NextHits]_vars

\* SpecWaves: SpecHits with the loop of line 228 never ending and the 1 % draw
\* of line 273 coming up again and again for as long as the respawn check
\* keeps finding no enemy alive.  Tick is a step that moves main_loop on to
\* its next position, which every step of a frame does.
Tick == pc' \in {"player", "enemies", "resolve", "respawn"} \ {pc}

SpecWaves == SpecHits /\ WF_pc(Tick) /\ SF_vars(GroupRespawn(SpawnSet))

\* SpecRegroup: SpecHits with the group respawn drawing the fresh enemies'
\* positions at either end of the range of line 276.
RespawnSet == { All(<<RESPAWN_MARGIN, RESPAWN_MARGIN>>),
                All(<<WIDTH - RESPAWN_MARGIN, HEIGHT - RESPAWN_MARGIN>>) }

NextRegroup ==
  \/ PlayerStep(DtSet, HitKeys)
  \/ EnemiesStep(HitZones, HitDraws)
  \/ ResolveStep(HitOverlaps)
  \/ GroupRespawn(RespawnSet)
  \/ NoRespawn

SpecRegroup == Init /\ [][NextRegroup]_vars

\* SpecCollide: circle_collide on every pair of circles of a small grid, the
\* circles taken in either order.
game == <<player, enemies, pc, dt, player_pos, enemy_pos, enemy_vel,
          hit_clock, dead_clock, regrouped, swing_damage, frames>>

Points == (0..MaxCoord) \X (0..MaxCoord)
Probes == { [NoProbe EXCEPT !.a = a, !.ra = ra, !.b = b, !.rb = rb] :
              a \in Points, b \in Points, ra \in 1..MaxRadius, rb \in 1..MaxRadius }

InitCollide == InitGame /\ probe \in Probes

Collide ==
  /\ ~probe.tested_ab
  /\ probe' = [probe EXCEPT !.tested_ab = TRUE,
                            !.hit_ab = circle_collide(probe.a, probe.ra, probe.b, probe.rb)]
  /\ UNCHANGED game

CollideSwapped ==
  /\ ~probe.tested_ba
  /\ probe' = [probe EXCEPT !.tested_ba = TRUE,
                            !.hit_ba = circle_collide(probe.b, probe.rb, probe.a, probe.ra)]
  /\ UNCHANGED game

NextCollide == Collide \/ CollideSwapped

SpecCollide == InitCollide /\ [][NextCollide]_vars

\* SpecArena: positions count.  The player marches right along its row in
\* long frames until it is as near the far wall as FightLine, and from there
\* it stands, steps right, swings a heavy attack or rolls, in short or long
\* frames, until MaxFrames frames have passed.  The first enemy wakes when
\* the player comes within sight; the others stay at the near wall, and no
\* wandering enemy is given a new direction.
FightLine == WIDTH - RESPAWN_MARGIN
March == [NoKeys EXCEPT !.right = TRUE]
ArenaKeys ==
  IF player_pos[1] < FightLine
  THEN { March }
  ELSE { NoKeys, March, [NoKeys EXCEPT !.k = TRUE], [NoKeys EXCEPT !.space = TRUE] }
ArenaDts == IF player_pos[1] < FightLine THEN { LongFrame * DtUnit } ELSE DtSet
KickSet == { All(NoKick) }

NextArena ==
  \/ ArenaPlayerStep(ArenaDts, ArenaKeys)
  \/ ArenaEnemiesStep(DrawSet, KickSet)
  \/ ArenaResolveStep
  \/ NoRespawn

SpecArena == Init /\ [][NextArena]_vars

\* -------------------------------------------------------------- properties
Entities == {player} \cup {enemies[i] : i \in DOMAIN enemies}

\* C1: in every reachable state the player's stamina lies in [0, 100],
\* whatever was regenerated and whatever roll, light-attack and heavy-attack
\* costs were debited, several of them in one frame included.
C1_StaminaInRange ==
  0 <= player.stamina /\ player.stamina <= STAMINA_MAX * MS

\* A roll and a light attack started in the same frame and left the
\* stamina below the cost of any further action.
C1_Witness ==
  /\ pc = "enemies"
  /\ player.roll_timer = ROLL_TIME - dt
  /\ player.attack_timer = LIGHT_ATTACK_TIME - dt
  /\ player.stamina < LIGHT_ATTACK_COST * MS

\* C2: for the player (max_hp 120) and every enemy (max_hp 80), in every
\* reachable state 0 <= hp <= max_hp.
C2_HpInRange ==
  /\ 0 <= player.hp /\ player.hp <= PLAYER_MAX_HP
  /\ \A i \in DOMAIN enemies : 0 <= enemies[i].hp /\ enemies[i].hp <= ENEMY_MAX_HP

\* C3: for every entity, in every reachable state alive is false exactly
\* when hp <= 0; an entity stops being alive only in a step that brings its
\* hp from above 0 to 0 or below, and an enemy that becomes alive again has
\* hp = max_hp.
C3_AliveIffHp == \A e \in Entities : ~e.alive <=> e.hp <= 0

C3_Transitions ==
  /\ player.alive /\ ~player'.alive => player.hp > 0 /\ player'.hp <= 0
  /\ \A i \in DOMAIN enemies :
       /\ enemies[i].alive /\ ~enemies'[i].alive
            => enemies[i].hp > 0 /\ enemies'[i].hp <= 0
       /\ ~enemies[i].alive /\ enemies'[i].alive
            => enemies'[i].hp = ENEMY_MAX_HP

C3_AliveTracksHp == []C3_AliveIffHp /\ [][C3_Transitions]_vars

\* An enemy died, counted its respawn timer down past zero and is alive
\* again at full hp.
C3_Witness ==
  \E i \in DOMAIN enemies :
    enemies[i].alive /\ enemies[i].hp = ENEMY_MAX_HP /\ enemies[i].respawn_time < 0

\* C4: take_damage on an entity with invuln_timer > 0 or alive false returns
\* false and leaves the entity as it is; otherwise it returns true, subtracts
\* exactly the amount from hp and sets invuln_timer to 0.5 s.  Stated of the
\* call on every reachable entity, and of the steps that make the calls: the
\* enemies' attacks on the player and the hitbox's hits on the enemies.
C4_CallContract(e, amount) ==
  LET r == take_damage(e, amount)
  IN IF e.invuln_timer > 0 \/ ~e.alive
     THEN ~r.ret /\ r.ent = e
     ELSE /\ r.ret
          /\ r.ent.hp = e.hp - amount
          /\ r.ent.invuln_timer = HIT_GRACE

C4_Calls ==
  /\ C4_CallContract(player, ENEMY_DAMAGE)
  /\ \A i \in DOMAIN enemies : C4_CallContract(enemies[i], HIT_DAMAGE)

C4_Effect(e, f, amount) ==
  IF e.invuln_timer > 0 \/ ~e.alive
  THEN f.hp = e.hp /\ f.alive = e.alive /\ f.invuln_timer = e.invuln_timer
  ELSE \/ f.hp = e.hp /\ f.alive = e.alive /\ f.invuln_timer = e.invuln_timer
       \/ f.hp = e.hp - amount /\ f.invuln_timer = HIT_GRACE

C4_Steps ==
  /\ pc = "enemies" => C4_Effect(player, player', ENEMY_DAMAGE)
  /\ pc = "resolve" =>
       \A i \in DOMAIN enemies : C4_Effect(enemies[i], enemies'[i], HIT_DAMAGE)

C4_DamageRejected == []C4_Calls /\ [][C4_Steps]_vars

\* The first enemy attacked the dead player in this frame (its cooldown was
\* just restarted) and the call changed nothing.
C4_Witness ==
  /\ pc = "resolve"
  /\ ~player.alive /\ player.invuln_timer = 0
  /\ enemies[1].attack_cooldown = ENEMY_ATTACK_COOLDOWN - dt

\* C5: in no reachable state is the player rolling (is_rolling true) while an
\* attack is active (attack_timer > 0).
C5_RollAttackExclusive ==
  ~(player.is_rolling /\ player.attack_timer > 0)

\* C6 as stated: a roll starts in a frame only if the roll input is pressed,
\* roll_cooldown <= 0 and stamina >= 20 before the attempt, and after it has
\* started stamina has decreased by exactly 20 and roll_cooldown is 0.8.
\* A roll has started in an update when roll_cooldown has risen; the claim is
\* stated of the update of every reachable player under every input.
RollStarted(p, q) == q.roll_cooldown > p.roll_cooldown

C7_LightWins ==
  pc = "player" =>
    \A d \in DtSet, ks \in KeySet :
      LET b == BeforeRoll(player, d, ks)
          q == PlayerUpdate(player, d, ks)
          rolled == IF RollStarted(player, q) THEN ROLL_COST * MS ELSE 0
          debit == b.stamina - q.stamina - rolled
      IN /\ debit \in {0, LIGHT_ATTACK_COST * MS, HEAVY_ATTACK_COST * MS}
         /\ ( /\ LightPressed(ks) /\ HeavyPressed(ks)
              /\ player.attack_cooldown <= 0
              /\ b.stamina - rolled >= (LIGHT_ATTACK_COST + HEAVY_ATTACK_COST) * MS )
            => /\ debit = LIGHT_ATTACK_COST * MS
               /\ q.attack_timer = Max(0, LIGHT_ATTACK_TIME - d)
               /\ q.attack_cooldown = Max(0, ATTACK_COOLDOWN - d)

\* A light attack started in the frame just updated.
C7_Witness ==
  /\ pc = "enemies"
  /\ dt < LIGHT_ATTACK_TIME
  /\ player.attack_timer = LIGHT_ATTACK_TIME - dt
  /\ player.attack_cooldown = ATTACK_COOLDOWN - dt

\* C8: whenever the player is rolling when the enemies act, its invuln_timer
\* is > 0, and the enemies' updates of that frame leave its hp unchanged, the
\* frame in which the roll starts included.
C8_RollingInvulnerable == pc = "enemies" /\ player.is_rolling => player.invuln_timer > 0

C8_RollingUnharmed == pc = "enemies" /\ player.is_rolling => player'.hp = player.hp

C8_RollProtects == []C8_RollingInvulnerable /\ [][C8_RollingUnharmed]_vars

\* The enemies have acted in the frame in which a roll started, the first of
\* them ready to attack, and the player, hurt before, is still rolling.
C8_Witness ==
  /\ pc = "resolve"
  /\ player.is_rolling /\ player.roll_timer = ROLL_TIME - dt
  /\ player.alive /\ player.hp < PLAYER_MAX_HP
  /\ enemies[1].alive /\ enemies[1].attack_cooldown = 0

\* C9 as stated: whenever the player is rolling, its velocity is the current
\* facing vector times the roll speed.
C9_RollVelocityAsStated ==
  player.is_rolling => player.vel = VScale(player.facing, ROLL_SPEED)

\* C9 as amended: the update in which a roll starts sets the velocity to the
\* facing vector of that update times the roll speed, and the velocity keeps
\* that value for as long as the player is rolling, while facing follows the
\* direction keys.
C9_RollVelocityStep ==
  /\ ~player.is_rolling /\ player'.is_rolling
       => player'.vel = VScale(player'.facing, ROLL_SPEED)
  /\ player.is_rolling /\ player'.is_rolling => player'.vel = player.vel

C9_RollVelocityFixed == [][C9_RollVelocityStep]_vars

\* The player turned during a roll: the velocity is still that of the start.
C9_Witness ==
  /\ player.is_rolling
  /\ player.vel # VScale(player.facing, ROLL_SPEED)
  /\ player.vel \in { VScale(f, ROLL_SPEED) : f \in { <<1000, 0>>, <<707, 707>> } }

\* C10: once take_damage has been applied to the player, every further damage
\* is rejected until 0.5 s of frame time have accumulated since that hit,
\* whatever the player does in between: the player loses hp only when the
\* time since its last loss has reached 0.5 s.
C10_GraceStep == player'.hp < player.hp => hit_clock >= HIT_GRACE

C10_GraceRespected == [][C10_GraceStep]_vars

\* C11: every timer and cooldown field (invuln_timer, attack_timer,
\* attack_cooldown, roll_timer, roll_cooldown of the player; invuln_timer,
\* attack_cooldown and respawn_time of every enemy) is never negative in any
\* reachable state.
C11_TimersNonNegative ==
  /\ player.invuln_timer >= 0 /\ player.attack_timer >= 0
  /\ player.attack_cooldown >= 0
  /\ player.roll_timer >= 0 /\ player.roll_cooldown >= 0
  /\ \A i \in DOMAIN enemies :
       /\ enemies[i].invuln_timer >= 0
       /\ enemies[i].attack_cooldown >= 0
       /\ enemies[i].respawn_time >= 0

\* C12: every enemy that dies eventually is alive again with hp = max_hp,
\* frames with dt > 0 never ceasing; and unless a group respawn replaces it,
\* it stays dead until at least 3.0 s of frame time have been counted down
\* from a respawn timer drawn from [3.0, 6.0] in its first update as a dead
\* enemy.
C12_Revives ==
  \A i \in 1..NUM_ENEMIES :
    ~enemies[i].alive ~> (enemies[i].alive /\ enemies[i].hp = ENEMY_MAX_HP)

C12_Step ==
  \A i \in DOMAIN enemies :
    \* the enemy dies with no timer running, so its next update seeds one
    /\ enemies[i].alive /\ ~enemies'[i].alive => enemies'[i].respawn_time <= 0
    \* the first update of a dead enemy draws the timer and keeps it dead
    /\ pc = "enemies" /\ ~enemies[i].alive /\ enemies[i].respawn_time <= 0
         => /\ ~enemies'[i].alive
            /\ enemies'[i].respawn_time >= RESPAWN_MIN
            /\ enemies'[i].respawn_time <= RESPAWN_MAX
    \* it comes back by the group respawn, or after 3.0 s of countdown
    /\ ~enemies[i].alive /\ enemies'[i].alive
         => /\ enemies'[i].hp = ENEMY_MAX_HP
            /\ \/ regrouped'
               \/ pc = "enemies" /\ dt > 0 /\ dead_clock[i] + dt >= RESPAWN_MIN

C12_RespawnCycle == C12_Revives /\ [][C12_Step]_vars

\* An enemy is in the last frame of a countdown from 3.0 s: 2.9 s are
\* counted, 0.1 s is left, and the group respawn has not come.
C12_Witness ==
  \E i \in DOMAIN enemies :
    /\ pc = "enemies"
    /\ ~enemies[i].alive
    /\ dead_clock[i] = RESPAWN_MIN - DtUnit
    /\ enemies[i].respawn_time = DtUnit

\* C13: a group respawn happens only in the respawn check of a frame in which
\* no enemy is alive; right after it, and in every other reachable state,
\* there are exactly 4 enemies, and the 4 fresh ones are all alive with
\* hp = max_hp at positions inside the arena bounds.
InArena(pos) ==
  /\ MARGIN <= pos[1] /\ pos[1] <= WIDTH - MARGIN
  /\ MARGIN <= pos[2] /\ pos[2] <= HEIGHT - MARGIN

C13_FourEnemies ==
  /\ Len(enemies) = NUM_ENEMIES
  /\ Len(enemy_pos) = NUM_ENEMIES

C13_Step ==
  \* the enemy list is replaced by the group respawn alone
  /\ (pc = "respawn" /\ enemies' # enemies) => regrouped'
  /\ regrouped' =>
       /\ pc = "respawn"
       /\ AliveCount(enemies) = 0
       /\ Len(enemies') = NUM_ENEMIES
       /\ \A i \in DOMAIN enemies' :
            /\ enemies'[i].alive
            /\ enemies'[i].hp = ENEMY_MAX_HP
            /\ InArena(enemy_pos'[i])

C13_GroupRespawn == []C13_FourEnemies /\ [][C13_Step]_vars

\* The enemy list has just been repopulated at the far end of the range.
C13_Witness ==
  /\ regrouped
  /\ AliveCount(enemies) = NUM_ENEMIES
  /\ enemy_pos = All(<<WIDTH - RESPAWN_MARGIN, HEIGHT - RESPAWN_MARGIN>>)

\* C14 as stated: whenever all 4 enemies are dead at once, a group respawn
\* eventually occurs, the 1 % draw being fair.
C14_GroupRespawnEventually == (AliveCount(enemies) = 0) ~> regrouped

\* C14 as amended: whenever all 4 enemies are dead at once, the respawn check
\* of every frame that still finds them all dead can repopulate the list,
\* and a repopulation leaves exactly 4 alive enemies; eventually some enemy is
\* alive again, by the group respawn or by the enemies' own respawn timers,
\* whichever comes first.
C14_Offered ==
  (pc = "respawn" /\ AliveCount(enemies) = 0) => ENABLED GroupRespawn(SpawnSet)

C14_Restores == regrouped' => AliveCount(enemies') = NUM_ENEMIES

C14_SomeoneReturns ==
  /\ (AliveCount(enemies) = 0) ~> (AliveCount(enemies) > 0)
  /\ []C14_Offered
  /\ [][C14_Restores]_vars

\* All four enemies died together and are alive again with no group respawn:
\* their own timers have run out and left them below zero.
C14_Witness ==
  /\ pc = "resolve"
  /\ ~regrouped
  /\ AliveCount(enemies) = NUM_ENEMIES
  /\ \A i \in DOMAIN enemies : enemies[i].respawn_time < 0

\* C15: after every Player.update, whatever the frame time, the velocity and
\* the inputs (a roll at 420 units a second toward a wall included), the
\* player's position lies in [20, WIDTH-20] x [20, HEIGHT-20], and a
\* coordinate that the integration carried outside the interval is the
\* nearest boundary value after the update.  Stated of the position in every
\* reachable state, of the update of every reachable player under every
\* input, and of a walk or a roll in each of the eight directions from each
\* corner of the arena.
ClampedTo(raw, new, lo, hi) ==
  /\ raw < lo => new = lo
  /\ raw > hi => new = hi
  /\ (lo <= raw /\ raw <= hi) => new = raw

Corners == { <<x, y>> : x \in {MARGIN, WIDTH - MARGIN}, y \in {MARGIN, HEIGHT - MARGIN} }

C15_FromCorners ==
  \A pos \in Corners, mx \in -1..1, my \in -1..1,
     speed \in {PLAYER_SPEED, ROLL_SPEED}, d \in DtSet :
    LET vel == VScale(Normalize(<<mx, my>>), speed)
        raw == Displace(pos, vel, d)
        new == MovePlayer(pos, vel, d)
    IN /\ InArena(new)
       /\ ClampedTo(raw[1], new[1], MARGIN, WIDTH - MARGIN)
       /\ ClampedTo(raw[2], new[2], MARGIN, HEIGHT - MARGIN)

C15_PositionClamped ==
  /\ InArena(player_pos)
  /\ frames = 0 => C15_FromCorners
  /\ pc = "player" =>
       \A d \in DtSet, ks \in KeySet :
         LET q == PlayerUpdate(player, d, ks)
             raw == Displace(player_pos, q.vel, d)
             new == MovePlayer(player_pos, q.vel, d)
         IN /\ InArena(new)
            /\ ClampedTo(raw[1], new[1], MARGIN, WIDTH - MARGIN)
            /\ ClampedTo(raw[2], new[2], MARGIN, HEIGHT - MARGIN)

\* The player has started a roll toward the far wall from less than a
\* frame's roll away from it, and the update has left it on the boundary.
C15_Witness ==
  /\ pc = "enemies"
  /\ player.is_rolling /\ player.roll_timer = ROLL_TIME - dt
  /\ player.vel = <<MS * ROLL_SPEED, 0>>
  /\ player_pos = <<WIDTH - MARGIN, HEIGHT \div 2>>

\* C16: stamina regenerates only while the player is not rolling.  In every
\* frame that begins with is_rolling true the stamina does not increase; in
\* every frame that begins with is_rolling false it first rises by 20 * dt,
\* capped at 100, and the costs of the actions started in the frame (20 for a
\* roll, 12 or 28 for an attack) are debited from the risen value.  Stated of
\* the update of every reachable player under every input.
ActionCosts ==
  { r + a : r \in {0, ROLL_COST * MS},
            a \in {0, LIGHT_ATTACK_COST * MS, HEAVY_ATTACK_COST * MS} }

C16_RegenOnlyOffRoll ==
  pc = "player" =>
    \A d \in DtSet, ks \in KeySet :
      LET q == PlayerUpdate(player, d, ks)
          risen == Min(STAMINA_MAX * MS, player.stamina + STAMINA_RECOVERY_RATE * d)
      IN IF player.is_rolling
         THEN /\ q.stamina <= player.stamina
              /\ player.stamina - q.stamina \in ActionCosts
         ELSE /\ risen - q.stamina \in ActionCosts
              /\ ~RollPressed(ks) /\ ~LightPressed(ks) /\ ~HeavyPressed(ks)
                   => q.stamina = risen

\* The second frame of a roll started at full stamina: the frame began with
\* is_rolling true and the stamina is still the 80 the roll left.
C16_Witness ==
  /\ pc = "enemies"
  /\ player.is_rolling
  /\ player.roll_timer = ROLL_TIME - 2 * DtUnit
  /\ player.stamina = (STAMINA_MAX - ROLL_COST) * MS

\* C17: circle_collide(a, ra, b, rb) gives the same answer with the two
\* circles exchanged, and it answers true exactly when the squared distance
\* of the centres is <= (ra + rb)^2: true when the distance is ra + rb (the
\* boundaries touch), false when it is any larger.
SquaredDistance == LengthSquared(VSub(probe.a, probe.b))
RadiusSum == probe.ra + probe.rb

C17_CollideExact ==
  /\ probe.tested_ab => (probe.hit_ab <=> SquaredDistance <= RadiusSum * RadiusSum)
  /\ probe.tested_ab /\ SquaredDistance = RadiusSum * RadiusSum => probe.hit_ab
  /\ probe.tested_ab /\ SquaredDistance > RadiusSum * RadiusSum => ~probe.hit_ab
  /\ probe.tested_ab /\ probe.tested_ba => probe.hit_ab = probe.hit_ba

\* Two circles of radius 2 and 3 with centres 3 across and 4 up from one
\* another, at distance 5: they touch, and both calls have answered true.
C17_Witness ==
  /\ probe.tested_ab /\ probe.tested_ba
  /\ probe.a = <<0, 0>> /\ probe.b = <<3, 4>>
  /\ probe.ra = 2 /\ probe.rb = 3
  /\ probe.hit_ab /\ probe.hit_ba

\* C18: when combat resolution has ended (pc = "respawn": the state that is
\* drawn), every alive enemy stands within [MARGIN, WIDTH - MARGIN] x
\* [MARGIN, HEIGHT - MARGIN], the enemies the hitbox pushed back in that
\* frame included.
C18_EnemiesInArena ==
  pc = "respawn" =>
    \A i \in DOMAIN enemies : enemies[i].alive => InArena(enemy_pos[i])

\* C19: in one frame the player's hp falls by 0 or by exactly ENEMY_DAMAGE,
\* also with several enemies in melee range whose attack_cooldown is <= 0.
\* It falls only in the enemies' update, only when the player is alive with
\* invuln_timer <= 0, and only if some alive enemy in melee range has
\* attack_cooldown <= 0.
InMelee(i) == \E zones \in GangZones : zones[i] = "melee"

Striker(i) ==
  enemies[i].alive /\ InMelee(i) /\ enemies[i].attack_cooldown <= 0

C19_Step ==
  /\ player'.hp \in {player.hp, player.hp - ENEMY_DAMAGE}
  /\ player'.hp < player.hp =>
       /\ pc = "enemies"
       /\ player.alive /\ player.invuln_timer <= 0
       /\ \E i \in DOMAIN enemies : Striker(i)

C19_OneHitPerFrame == [][C19_Step]_vars

\* The enemies' update has just run with two enemies in melee range, both
\* with attack_cooldown <= 0: the first struck and started its cooldown, the
\* second did not, and the player lost ENEMY_DAMAGE once.
C19_Witness ==
  /\ pc = "resolve"
  /\ hit_clock = 0
  /\ player.hp = PLAYER_MAX_HP - ENEMY_DAMAGE
  /\ enemies[1].alive /\ enemies[1].attack_cooldown = ENEMY_ATTACK_COOLDOWN - dt
  /\ enemies[2].alive /\ enemies[2].attack_cooldown = 0
  /\ InMelee(1) /\ InMelee(2)

\* C20: one swing, from the update that starts an attack until attack_timer
\* is back at 0, takes at most HIT_DAMAGE from the hp of any one enemy, for
\* every sequence of frame times: an enemy is damaged at most once per swing.
C20_OneHitPerSwing ==
  \A i \in DOMAIN enemies : swing_damage[i] <= HIT_DAMAGE

\* Hit resolution has run in a later frame of a swing that already damaged
\* enemy 1: the hitbox is still there, the enemy is alive and still protected
\* by that hit, and it has lost HIT_DAMAGE during the swing, no more.
C20_Witness ==
  /\ pc = "respawn"
  /\ HasHitbox(player)
  /\ player.attack_timer < HEAVY_ATTACK_TIME - dt
  /\ swing_damage[1] = HIT_DAMAGE
  /\ enemies[1].alive
  /\ enemies[1].invuln_timer > 0 /\ enemies[1].invuln_timer < HIT_GRACE
====
